---- MODULE Spec2Model ----
(***************************************************************************)
(* Model of the cooking assistant workflow (src/cooking/agents.py), the    *)
(* tools it calls (src/cooking/tools.py) and the validated data it carries *)
(* (src/cooking/models.py).                                                *)
(*                                                                         *)
(* One behaviour is one run of the compiled graph on one AgentState.  The  *)
(* language model and the search service are the environment: every reply  *)
(* and every failure they can produce is a nondeterministic choice.        *)
(*                                                                         *)
(* Text is a sequence of one-character strings, so that lower(), strip()   *)
(* and endswith() are computed.  The reply of the recipe parser model is a *)
(* sequence of tokens (code fences, whitespace, one body), the body being  *)
(* either text that is not JSON or the JSON value the text denotes.        *)
(* An optional value is a sequence of length 0 (None) or 1.                *)
(***************************************************************************)
EXTENDS Integers, Sequences, FiniteSets, TLC

\* ------------------------------------------------------------------ bounds
\* number of distinct snippet texts the search service can return
NumSnippets == 2
\* largest "servings" number the parser model writes
MaxServings == 2

\* ------------------------------------------------------- program constants
\* DDGS().text(..., max_results=3)
MaxResults == 3

None == <<>>
Some(x) == <<x>>

\* ---------------------------------------------------------------- strings
UpperAlpha == <<"A","B","C","D","E","F","G","H","I","J","K","L","M",
                "N","O","P","Q","R","S","T","U","V","W","X","Y","Z">>
LowerAlpha == <<"a","b","c","d","e","f","g","h","i","j","k","l","m",
                "n","o","p","q","r","s","t","u","v","w","x","y","z">>

LowerChar(c) ==
    IF \E i \in 1..26 : UpperAlpha[i] = c
    THEN LowerAlpha[CHOOSE i \in 1..26 : UpperAlpha[i] = c]
    ELSE c

\* str.lower()
Lower(s) == [i \in 1..Len(s) |-> LowerChar(s[i])]

IsSpace(c) == c \in {" ", "\t", "\n"}

SetMin(S) == CHOOSE m \in S : \A n \in S : m <= n
SetMax(S) == CHOOSE m \in S : \A n \in S : n <= m

\* str.strip()
Strip(s) ==
    LET keep == {i \in 1..Len(s) : ~IsSpace(s[i])}
    IN  IF keep = {} THEN <<>> ELSE SubSeq(s, SetMin(keep), SetMax(keep))

\* str.endswith(suffix)
EndsWith(s, suffix) ==
    /\ Len(suffix) <= Len(s)
    /\ SubSeq(s, Len(s) - Len(suffix) + 1, Len(s)) = suffix

IsPrefix(s, t) == Len(s) <= Len(t) /\ SubSeq(t, 1, Len(s)) = s

STR_true    == <<"t","r","u","e">>
STR_minutes == <<"m","i","n","u","t","e","s">>

\* ------------------------------------------------------------ environment
\* Classes of exception an external call can raise: one that is a ValueError
\* (json.JSONDecodeError is a subclass of it) and one that is not.
ExcKinds == {"ValueError", "OtherError"}

\* replies of the model to the two yes/no prompts
BoolReplies == { STR_true,
                 <<" ","T","R","U","E","\n">>,
                 <<"f","a","l","s","e">>,
                 <<"y","e","s">>,
                 <<>> }

Snippets == 1..NumSnippets

RECURSIVE SeqsUpTo(_, _)
SeqsUpTo(S, n) ==
    IF n = 0 THEN {<<>>}
    ELSE LET shorter == SeqsUpTo(S, n - 1)
         IN  shorter \cup {Append(q, x) : q \in {r \in shorter : Len(r) = n - 1}, x \in S}

\* what DDGS().text(..., max_results=3) can yield: up to three bodies
SearchReturns == SeqsUpTo(Snippets, MaxResults)

\* replies of the model to the response prompts (response.content)
ResponseReplies == { <<>>, <<" ","\n">>, <<"o","k">>, <<" ","o","k","\n">> }

\* ------------------------------------------------------------ JSON values
JNull     == [t |-> "null"]
JNum(n)   == [t |-> "num", n |-> n]
JStr(s)   == [t |-> "str", s |-> s]
JList(q)  == [t |-> "list", items |-> q]
JObj(d)   == [t |-> "obj", fields |-> d]
JsonTypes == {"null", "num", "str", "list", "obj"}

\* tokens of the parser model's reply that are not the body
FenceJson == [t |-> "fence_json"]
Fence     == [t |-> "fence"]
Ws        == [t |-> "ws"]
\* a body json.loads rejects
NotJson   == [t |-> "text"]

IsWs(tok) == tok.t = "ws"

\* str.strip() on a sequence of tokens
StripTokens(c) ==
    LET keep == {i \in 1..Len(c) : ~IsWs(c[i])}
    IN  IF keep = {} THEN <<>> ELSE SubSeq(c, SetMin(keep), SetMax(keep))

\* Result of a call: the class of the exception it raised ("none" if it
\* returned) and the value it returned.
Ok(v)      == [exc |-> "none", value |-> v]
Raised(e)  == [exc |-> e, value |-> None]

\* ------------------------------------------------------------------ Recipe
AllowedDifficulty == { <<"e","a","s","y">>,
                       <<"m","e","d","i","u","m">>,
                       <<"h","a","r","d">> }

\* a validator that checks the lower-cased value but keeps the raw one
validate_difficulty_KeepCase(v) ==
    LET w == Lower(v)
    IN  IF w \notin AllowedDifficulty THEN Raised("ValueError") ELSE Ok(v)

validate_difficulty(v) ==
    LET w == Lower(v)
    IN  IF w \notin AllowedDifficulty THEN Raised("ValueError") ELSE Ok(w)

validate_servings(v) ==
    IF v < 1 THEN Raised("ValueError") ELSE Ok(v)

validate_cooking_time(v) ==
    IF ~EndsWith(Strip(v), STR_minutes)
    THEN Ok(Strip(v) \o <<" ">> \o STR_minutes)
    ELSE Ok(v)

RecipeFields == {"name", "ingredients", "steps", "required_tools",
                 "cooking_time", "difficulty", "servings"}

IsStrValue(j)  == j.t = "str"
IsIntValue(j)  == j.t = "num"
IsStrList(j)   == j.t = "list" /\ \A i \in 1..Len(j.items) : j.items[i].t = "str"
StrItems(j)    == [i \in 1..Len(j.items) |-> j.items[i].s]

\* the declared field types: every field required, str / List[str] / int
FieldsTyped(d) ==
    /\ RecipeFields \subseteq DOMAIN d
    /\ IsStrValue(d["name"])
    /\ IsStrList(d["ingredients"])
    /\ IsStrList(d["steps"])
    /\ IsStrList(d["required_tools"])
    /\ IsStrValue(d["cooking_time"])
    /\ IsStrValue(d["difficulty"])
    /\ IsIntValue(d["servings"])

\* Recipe(**kwargs) on a mapping: a ValidationError unless every field is
\* present, typed and accepted by its validator
Recipe(d) ==
    IF ~FieldsTyped(d) THEN Raised("ValidationError")
    ELSE LET diff == validate_difficulty(d["difficulty"].s)
             serv == validate_servings(d["servings"].n)
             time == validate_cooking_time(d["cooking_time"].s)
         IN  IF diff.exc # "none" \/ serv.exc # "none" \/ time.exc # "none"
             THEN Raised("ValidationError")
             ELSE Ok([ name           |-> d["name"].s,
                       ingredients    |-> StrItems(d["ingredients"]),
                       steps          |-> StrItems(d["steps"]),
                       required_tools |-> StrItems(d["required_tools"]),
                       cooking_time   |-> time.value,
                       difficulty     |-> diff.value,
                       servings       |-> serv.value ])

\* ------------------------------------------------------------ parse_recipe
\* content.strip(); drop a leading ```json; drop a trailing ```; strip()
CleanContent(content) ==
    LET c1 == StripTokens(content)
        c2 == IF Len(c1) > 0 /\ c1[1] = FenceJson THEN Tail(c1) ELSE c1
        c3 == IF Len(c2) > 0 /\ c2[Len(c2)] = Fence
              THEN SubSeq(c2, 1, Len(c2) - 1) ELSE c2
    IN  StripTokens(c3)

\* json.loads: the value of a text that is exactly one JSON document
json_loads(content) ==
    IF Len(content) = 1 /\ content[1].t \in JsonTypes
    THEN Ok(content[1])
    ELSE Raised("JSONDecodeError")

\* Recipe(**recipe_dict): the ** needs a mapping
RecipeFromJson(j) ==
    IF j.t # "obj" THEN Raised("TypeError") ELSE Recipe(j.fields)

\* the exception classes that are ValueError or a subclass of it
ValueErrorClasses == {"ValueError", "JSONDecodeError", "ValidationError"}

\* the exception classes the except clause of parse_recipe names
ParseRecipeCatches == {"JSONDecodeError", "ValueError"}

\* isinstance(e, one of the classes the clause names)
CaughtByParseRecipe(e) ==
    \/ e \in ParseRecipeCatches
    \/ "ValueError" \in ParseRecipeCatches /\ e \in ValueErrorClasses

\* the body of the try block, reply being what llm.invoke did
ParseRecipeTry(reply) ==
    IF reply.exc # "none" THEN Raised(reply.exc)
    ELSE LET loaded == json_loads(CleanContent(reply.value))
         IN  IF loaded.exc # "none" THEN loaded
             ELSE LET built == RecipeFromJson(loaded.value)
                  IN  IF built.exc # "none" THEN built ELSE Ok(Some(built.value))

parse_recipe(reply) ==
    LET r == ParseRecipeTry(reply)
    IN  IF r.exc # "none" /\ CaughtByParseRecipe(r.exc) THEN Ok(None) ELSE r

\* ------------------------------------------------------------------ ToolSet
available_tools == << <<"S","p","a","t","u","l","a">>,
                      <<"F","r","y","i","n","g"," ","P","a","n">>,
                      <<"L","i","t","t","l","e"," ","P","o","t">>,
                      <<"S","t","o","v","e","t","o","p">>,
                      <<"W","h","i","s","k">>,
                      <<"K","n","i","f","e">>,
                      <<"L","a","d","l","e">>,
                      <<"S","p","o","o","n">> >>

\* the one ToolSet() built by create_cooking_graph
toolset == [available_tools |-> available_tools]

Range(q) == {q[i] : i \in 1..Len(q)}

\* a capability check that compares the names as written
can_cook_recipe_CaseSensitive(self, recipe) ==
    IF recipe = None THEN TRUE
    ELSE Range(recipe[1].required_tools) \subseteq Range(self.available_tools)

\* ToolSet.can_cook_recipe; recipe is an optional Recipe
can_cook_recipe(self, recipe) ==
    IF recipe = None THEN TRUE
    ELSE LET required  == {Lower(tool) : tool \in Range(recipe[1].required_tools)}
             available == {Lower(tool) : tool \in Range(self.available_tools)}
         IN  required \subseteq available

\* ------------------------------------------------------- the other tools
\* classify_query(query, llm) of tools.py; reply is what llm.invoke did
tool_classify_query(reply) ==
    IF reply.exc # "none" THEN Raised(reply.exc)
    ELSE Ok(Strip(Lower(reply.value)) = STR_true)

\* needs_research(query, llm) of tools.py
tool_needs_research(reply) ==
    IF reply.exc # "none" THEN Raised(reply.exc)
    ELSE Ok(Strip(Lower(reply.value)) = STR_true)

\* a search that turns an error of the service into an empty result
search_recipes_Suppress(reply) ==
    IF reply.exc # "none" THEN Ok(<<>>)
    ELSE Ok([i \in 1..Len(reply.value) |-> reply.value[i]])

\* search_recipes(query); reply is what DDGS().text did
search_recipes(reply) ==
    IF reply.exc # "none" THEN Raised(reply.exc)
    ELSE Ok([i \in 1..Len(reply.value) |-> reply.value[i]])

STR_how_to_cook == <<"h","o","w"," ","t","o"," ","c","o","o","k">>

\* sub in s
Contains(s, sub) ==
    \E i \in 1..(Len(s) - Len(sub) + 1) : SubSeq(s, i, i + Len(sub) - 1) = sub

\* the prompt generate_cooking_response sends
ResponsePrompt(q, rcp) ==
    IF rcp # None THEN "FINAL_RESPONSE_PROMPT"
    ELSE IF Contains(Lower(q), STR_how_to_cook) THEN "how to cook"
    ELSE "GENERAL_COOKING_PROMPT"

\* generate_cooking_response(query, recipe, toolset, llm)
generate_cooking_response(q, rcp, ts, reply) ==
    IF reply.exc # "none" THEN Raised(reply.exc)
    ELSE IF reply.value = <<>> THEN Raised("ValueError")
    ELSE Ok(Strip(reply.value))

\* ------------------------------------------------ replies of the services
Queries == { <<"H","o","w"," ","t","o"," ","c","o","o","k"," ","r","i","c","e">>,
             <<"w","e","a","t","h","e","r">> }

BoolLLM == {Ok(c) : c \in BoolReplies} \cup {Raised(e) : e \in ExcKinds}

SearchService == {Ok(r) : r \in SearchReturns} \cup {Raised(e) : e \in ExcKinds}

ResponseLLM == {Ok(c) : c \in ResponseReplies} \cup {Raised(e) : e \in ExcKinds}

STR_easy == <<"e","a","s","y">>

RecipeDict(diff, serv, time) ==
    [ name           |-> JStr(<<"R","i","c","e">>),
      ingredients    |-> JList(<<JStr(<<"r","i","c","e">>)>>),
      steps          |-> JList(<<JStr(<<"b","o","i","l">>)>>),
      required_tools |-> JList(<<JStr(<<"k","n","i","f","e">>)>>),
      cooking_time   |-> JStr(time),
      difficulty     |-> JStr(diff),
      servings       |-> serv ]

Without(d, k) == [x \in DOMAIN d \ {k} |-> d[x]]

\* keyword arguments of the declared types with an empty name, no
\* ingredients or no steps
EmptyFieldDicts ==
    { [RecipeDict(STR_easy, JNum(1), <<"3","0">>) EXCEPT !["name"] = JStr(<<>>)],
      [RecipeDict(STR_easy, JNum(1), <<"3","0">>) EXCEPT !["ingredients"] = JList(<<>>)],
      [RecipeDict(STR_easy, JNum(1), <<"3","0">>) EXCEPT !["steps"] = JList(<<>>)] }

\* the documents the parser model writes: text that is not JSON, JSON that
\* is not an object, objects that lack a field or hold a value of the wrong
\* type, objects with an empty field, and objects with every combination of difficulty, servings and
\* cooking time
ParserBodies ==
    { NotJson, JNull, JNum(42), JList(<<>>), JStr(STR_easy) }
    \cup { JObj(Without(RecipeDict(STR_easy, JNum(1), <<"3","0">>), "servings")),
           JObj(RecipeDict(STR_easy, JNull, <<"3","0">>)),
           JObj([RecipeDict(STR_easy, JNum(1), <<"3","0">>) EXCEPT !["ingredients"] = JStr(<<"r","i","c","e">>)]) }
    \cup { JObj(d) : d \in EmptyFieldDicts }
    \cup { JObj(RecipeDict(diff, JNum(serv), time)) :
             diff \in { STR_easy, <<"E","A","S","Y">>, <<"e","x","t","r","e","m","e">> },
             serv \in (0 - 1)..MaxServings,
             time \in { <<"3","0">>, <<"3","0"," ","m","i","n","u","t","e","s">> } }

\* the reply texts: the bare document, the document in a ```json fence, and
\* the document in a fence that lacks the word json
ParserContents ==
    UNION { { <<b>>,
              <<Ws, FenceJson, Ws, b, Ws, Fence, Ws>>,
              <<Fence, Ws, b, Ws, Fence>> } : b \in ParserBodies }

ParserLLM == {Ok(c) : c \in ParserContents} \cup {Raised(e) : e \in ExcKinds}

\* ------------------------------------------------------------- AgentState
\* AgentState(query=query): every other field at its default
AgentState(q) ==
    [ query              |-> q,
      is_cooking_related |-> FALSE,
      needs_research     |-> FALSE,
      research_results   |-> <<>>,
      recipe             |-> None,
      reasoning_chain    |-> <<>>,
      final_response     |-> None ]

\* the fixed text generate_response gives a query that is not about cooking
\* (one element holding the whole literal)
REFUSAL == <<"I apologize, but I can only help with cooking-related questions. Please ask me about recipes, cooking techniques, or kitchen tools.">>

ClassificationEntry(is_cooking) ==
    IF is_cooking THEN "Query classification: cooking-related"
    ELSE "Query classification: not cooking-related"

ResearchNeededEntry(needed) ==
    IF needed THEN "Research needed" ELSE "Research not needed"

ResearchEntry == "Performed recipe research"

ParseEntry(rcp) ==
    IF rcp # None THEN "Recipe parsed successfully" ELSE "Recipe parsing failed"

ResponseEntry == "Generated final response"

\* ------------------------------------------------------------------- steps
\* What a step did: the exception it raised ("none" if it returned), the
\* state it returned, and the tool calls it made.  A tool call records the
\* tool, its arguments, what the external service did (reply) and what the
\* tool did (result).
StepOk(st, cs)        == [exc |-> "none", value |-> st, calls |-> cs]
StepRaised(e, st, cs) == [exc |-> e, value |-> st, calls |-> cs]

ToolCall(tool, args, reply, result) ==
    [tool |-> tool, args |-> args, reply |-> reply, result |-> result]

\* a classify step that answers a query that is not about cooking at once
classify_query_EarlyRefusal(st, reply) ==
    LET r    == tool_classify_query(reply)
        call == ToolCall("classify_query", <<st.query>>, reply, r)
    IN  IF r.exc # "none" THEN StepRaised(r.exc, st, <<call>>)
        ELSE StepOk([st EXCEPT !.is_cooking_related = r.value,
                               !.reasoning_chain = Append(@, ClassificationEntry(r.value)),
                               !.final_response = IF r.value THEN None ELSE Some(REFUSAL)],
                    <<call>>)

classify_query(st, reply) ==
    LET r    == tool_classify_query(reply)
        call == ToolCall("classify_query", <<st.query>>, reply, r)
    IN  IF r.exc # "none" THEN StepRaised(r.exc, st, <<call>>)
        ELSE StepOk([st EXCEPT !.is_cooking_related = r.value,
                               !.reasoning_chain = Append(@, ClassificationEntry(r.value))],
                    <<call>>)

\* a research check without its guard
check_research_needed_NoGuard(st, reply) ==
    LET r    == tool_needs_research(reply)
        call == ToolCall("needs_research", <<st.query>>, reply, r)
    IN  IF r.exc # "none" THEN StepRaised(r.exc, st, <<call>>)
        ELSE StepOk([st EXCEPT !.needs_research = r.value,
                               !.reasoning_chain = Append(@, ResearchNeededEntry(r.value))],
                    <<call>>)

check_research_needed(st, reply) ==
    IF ~st.is_cooking_related THEN StepOk(st, <<>>)
    ELSE LET r    == tool_needs_research(reply)
             call == ToolCall("needs_research", <<st.query>>, reply, r)
         IN  IF r.exc # "none" THEN StepRaised(r.exc, st, <<call>>)
             ELSE StepOk([st EXCEPT !.needs_research = r.value,
                                    !.reasoning_chain = Append(@, ResearchNeededEntry(r.value))],
                         <<call>>)

\* a research step without its guard
do_research_NoGuard(st, reply) ==
    LET r    == search_recipes(reply)
        call == ToolCall("search_recipes", <<st.query>>, reply, r)
    IN  IF r.exc # "none" THEN StepRaised(r.exc, st, <<call>>)
        ELSE IF r.value = <<>>
             THEN StepOk([st EXCEPT !.research_results = <<>>], <<call>>)
             ELSE StepOk([st EXCEPT !.research_results = r.value,
                                    !.reasoning_chain = Append(@, ResearchEntry)],
                         <<call>>)

\* a research step that records an empty search like a successful one
do_research_AppendAlways(st, reply) ==
    IF ~st.needs_research THEN StepOk(st, <<>>)
    ELSE LET r    == search_recipes(reply)
             call == ToolCall("search_recipes", <<st.query>>, reply, r)
         IN  IF r.exc # "none" THEN StepRaised(r.exc, st, <<call>>)
             ELSE StepOk([st EXCEPT !.research_results = r.value,
                                    !.reasoning_chain = Append(@, ResearchEntry)],
                         <<call>>)

\* a research step that lowers needs_research once the search is made
do_research_ClearNeed(st, reply) ==
    IF ~st.needs_research THEN StepOk(st, <<>>)
    ELSE LET r    == search_recipes(reply)
             call == ToolCall("search_recipes", <<st.query>>, reply, r)
         IN  IF r.exc # "none" THEN StepRaised(r.exc, st, <<call>>)
             ELSE IF r.value = <<>>
                  THEN StepOk([st EXCEPT !.research_results = <<>>,
                                         !.needs_research = FALSE], <<call>>)
                  ELSE StepOk([st EXCEPT !.research_results = r.value,
                                         !.needs_research = FALSE,
                                         !.reasoning_chain = Append(@, ResearchEntry)],
                              <<call>>)

do_research(st, reply) ==
    IF ~st.needs_research THEN StepOk(st, <<>>)
    ELSE LET r    == search_recipes(reply)
             call == ToolCall("search_recipes", <<st.query>>, reply, r)
         IN  IF r.exc # "none" THEN StepRaised(r.exc, st, <<call>>)
             ELSE IF r.value = <<>>
                  THEN StepOk([st EXCEPT !.research_results = <<>>], <<call>>)
                  ELSE StepOk([st EXCEPT !.research_results = r.value,
                                         !.reasoning_chain = Append(@, ResearchEntry)],
                              <<call>>)

\* a parse step that records only a successful parse
parse_results_SilentFailure(st, reply) ==
    IF st.research_results = <<>> THEN StepOk(st, <<>>)
    ELSE LET r    == parse_recipe(reply)
             call == ToolCall("parse_recipe", <<st.research_results>>, reply, r)
         IN  IF r.exc # "none" THEN StepRaised(r.exc, st, <<call>>)
             ELSE IF r.value = None
                  THEN StepOk([st EXCEPT !.recipe = r.value], <<call>>)
                  ELSE StepOk([st EXCEPT !.recipe = r.value,
                                         !.reasoning_chain = Append(@, ParseEntry(r.value))],
                              <<call>>)

\* a parse step that starts the chain over
parse_results_ResetChain(st, reply) ==
    IF st.research_results = <<>> THEN StepOk(st, <<>>)
    ELSE LET r    == parse_recipe(reply)
             call == ToolCall("parse_recipe", <<st.research_results>>, reply, r)
         IN  IF r.exc # "none" THEN StepRaised(r.exc, st, <<call>>)
             ELSE StepOk([st EXCEPT !.recipe = r.value,
                                    !.reasoning_chain = <<ParseEntry(r.value)>>],
                         <<call>>)

\* a parse step that puts its entry at the head of the chain
parse_results_Prepend(st, reply) ==
    IF st.research_results = <<>> THEN StepOk(st, <<>>)
    ELSE LET r    == parse_recipe(reply)
             call == ToolCall("parse_recipe", <<st.research_results>>, reply, r)
         IN  IF r.exc # "none" THEN StepRaised(r.exc, st, <<call>>)
             ELSE StepOk([st EXCEPT !.recipe = r.value,
                                    !.reasoning_chain = <<ParseEntry(r.value)>> \o @],
                         <<call>>)

\* a parse step without its guard
parse_results_NoGuard(st, reply) ==
    LET r    == parse_recipe(reply)
        call == ToolCall("parse_recipe", <<st.research_results>>, reply, r)
    IN  IF r.exc # "none" THEN StepRaised(r.exc, st, <<call>>)
        ELSE StepOk([st EXCEPT !.recipe = r.value,
                               !.reasoning_chain = Append(@, ParseEntry(r.value))],
                    <<call>>)

parse_results(st, reply) ==
    IF st.research_results = <<>> THEN StepOk(st, <<>>)
    ELSE LET r    == parse_recipe(reply)
             call == ToolCall("parse_recipe", <<st.research_results>>, reply, r)
         IN  IF r.exc # "none" THEN StepRaised(r.exc, st, <<call>>)
             ELSE StepOk([st EXCEPT !.recipe = r.value,
                                    !.reasoning_chain = Append(@, ParseEntry(r.value))],
                         <<call>>)

\* a respond step that returns a query that is not about cooking untouched
generate_response_NoRefusal(st, reply) ==
    IF ~st.is_cooking_related
    THEN StepOk(st, <<>>)
    ELSE LET r    == generate_cooking_response(st.query, st.recipe, toolset, reply)
             call == ToolCall("generate_response", <<st.query, st.recipe, toolset>>, reply, r)
         IN  IF r.exc # "none" THEN StepRaised(r.exc, st, <<call>>)
             ELSE IF r.value = <<>> THEN StepRaised("ValueError", st, <<call>>)
             ELSE StepOk([st EXCEPT !.final_response = Some(r.value),
                                    !.reasoning_chain = Append(@, ResponseEntry)],
                         <<call>>)

\* a respond step that accepts an empty answer
generate_response_NoEmptyCheck(st, reply) ==
    IF ~st.is_cooking_related
    THEN StepOk([st EXCEPT !.final_response = Some(REFUSAL)], <<>>)
    ELSE LET r    == generate_cooking_response(st.query, st.recipe, toolset, reply)
             call == ToolCall("generate_response", <<st.query, st.recipe, toolset>>, reply, r)
         IN  IF r.exc # "none" THEN StepRaised(r.exc, st, <<call>>)
             ELSE StepOk([st EXCEPT !.final_response = Some(r.value),
                                    !.reasoning_chain = Append(@, ResponseEntry)],
                         <<call>>)

generate_response(st, reply) ==
    IF ~st.is_cooking_related
    THEN StepOk([st EXCEPT !.final_response = Some(REFUSAL)], <<>>)
    ELSE LET r    == generate_cooking_response(st.query, st.recipe, toolset, reply)
             call == ToolCall("generate_response", <<st.query, st.recipe, toolset>>, reply, r)
         IN  IF r.exc # "none" THEN StepRaised(r.exc, st, <<call>>)
             ELSE IF r.value = <<>> THEN StepRaised("ValueError", st, <<call>>)
             ELSE StepOk([st EXCEPT !.final_response = Some(r.value),
                                    !.reasoning_chain = Append(@, ResponseEntry)],
                         <<call>>)

\* ------------------------------------------------------------ the workflow
Nodes == {"classify", "check_research", "research", "parse", "respond"}

\* a graph whose research node is wired past the parse node
Edges_SkipParse == { <<"classify", "check_research">>,
                     <<"check_research", "research">>,
                     <<"research", "respond">>,
                     <<"parse", "respond">> }

\* a graph whose parse node is wired back to the research node
Edges_Reenter == { <<"classify", "check_research">>,
                   <<"check_research", "research">>,
                   <<"research", "parse">>,
                   <<"parse", "research">> }

Edges == { <<"classify", "check_research">>,
           <<"check_research", "research">>,
           <<"research", "parse">>,
           <<"parse", "respond">> }

EntryPoint  == "classify"
FinishPoint == "respond"

\* where the compiled graph goes when node n has returned
After(n) ==
    IF n = FinishPoint THEN "done"
    ELSE CHOOSE m \in Nodes : <<n, m>> \in Edges

VARIABLES
    pc,        \* the node the engine invokes next, or "done" / "failed"
    state,     \* the AgentState of the run
    error,     \* the exception that left the engine, if any
    invoked,   \* history: the nodes invoked, in order
    calls,     \* history: the tool calls made, in order
    worked,    \* history: steps that returned after calling their tool
    writes,    \* history: assignments that changed final_response
    http,      \* what process_cooking_query met and returned, if it has ended
    other,     \* a second request, parked while this one runs, or NoRun
    probe      \* a function applied on its own: its name, arguments, result

vars == <<pc, state, error, invoked, calls, worked, writes, http, other, probe>>

\* no second request
NoRun == [pc |-> "none"]

\* no function applied
NoProbe == [fn |-> "none", arg |-> <<>>, out |-> <<>>]

Init ==
    /\ pc = EntryPoint
    /\ state \in {AgentState(q) : q \in Queries}
    /\ error = None
    /\ invoked = <<>>
    /\ calls = <<>>
    /\ worked = 0
    /\ writes = 0
    /\ http = None
    /\ other = NoRun
    /\ probe = NoProbe

\* graph.invoke runs node n, r being what the node's function did: a raise
\* leaves the engine, a return moves along the edge
RunNode(n, r) ==
    /\ pc = n
    /\ invoked' = Append(invoked, n)
    /\ calls' = calls \o r.calls
    /\ UNCHANGED <<http, other, probe>>
    /\ IF r.exc # "none"
       THEN /\ pc' = "failed"
            /\ error' = Some(r.exc)
            /\ UNCHANGED <<state, worked, writes>>
       ELSE /\ pc' = After(n)
            /\ state' = r.value
            /\ worked' = worked + (IF r.calls # <<>> THEN 1 ELSE 0)
            /\ writes' = writes + (IF r.value.final_response # state.final_response THEN 1 ELSE 0)
            /\ UNCHANGED error

classify ==
    \E reply \in BoolLLM : RunNode("classify", classify_query(state, reply))

check_research ==
    \E reply \in BoolLLM : RunNode("check_research", check_research_needed(state, reply))

research ==
    \E reply \in SearchService : RunNode("research", do_research(state, reply))

parse ==
    \E reply \in ParserLLM : RunNode("parse", parse_results(state, reply))

respond ==
    \E reply \in ResponseLLM : RunNode("respond", generate_response(state, reply))

Next == classify \/ check_research \/ research \/ parse \/ respond

Spec == Init /\ [][Next]_vars

\* the engine keeps invoking the next node, and every call a node makes
\* returns or raises
LiveSpec == Init /\ [][Next]_vars /\ WF_vars(Next)

\* ---------------------------------------------------------- the HTTP layer
\* Text of the HTTP layer is a sequence of pieces; a piece is one character
\* or a whole literal.

\* an exception with its message
RaisedMsg(e, msg) == [exc |-> e, value |-> None, msg |-> msg]

\* str(e) of an exception that left the engine; OtherError stands for an
\* exception raised without a message
ExcText(e) == IF e = "OtherError" THEN <<>> ELSE <<e>>

\* CookingResponse.validate_response
validate_response(v) ==
    LET w == Strip(v)
    IN  IF w = <<>> THEN <<"No response generated">> ELSE w

\* CookingResponse.validate_reasoning_chain
validate_reasoning_chain(v) ==
    IF v = <<>> THEN << <<"Direct response generated">> >>
    ELSE LET kept == SelectSeq(v, LAMBDA item : item # <<>>)
         IN  [i \in 1..Len(kept) |-> Strip(kept[i])]

\* CookingResponse(response=..., relevant=..., reasoning_chain=...): strings
\* are stripped (str_strip_whitespace), response needs min_length 1, then
\* the two validators run
CookingResponse(response, relevant, chain) ==
    LET stripped == Strip(response)
        items    == [i \in 1..Len(chain) |-> Strip(chain[i])]
    IN  IF Len(stripped) < 1
        THEN RaisedMsg("ValidationError", <<"String should have at least 1 character">>)
        ELSE Ok([ response        |-> validate_response(stripped),
                  relevant        |-> relevant,
                  reasoning_chain |-> validate_reasoning_chain(items) ])

\* generate_cooking_response(query) of app.py once cooking_graph.invoke has
\* ended: run is what the engine did, is_dict whether its result is a dict
app_generate_cooking_response(run, is_dict) ==
    IF run.pc = "failed"
    THEN RaisedMsg("ValueError",
                   <<"Failed to generate response:", " ", "Workflow execution failed:", " ">>
                       \o ExcText(run.error[1]))
    ELSE IF ~is_dict
    THEN RaisedMsg("ValueError",
                   <<"Failed to generate response:", " ", "Invalid state type:", " ",
                     "AgentState">>)
    ELSE Ok([ response        |-> IF run.state.final_response = None
                                  THEN <<"None">>
                                  ELSE run.state.final_response[1],
              relevant        |-> run.state.is_cooking_related,
              reasoning_chain |-> [i \in 1..Len(run.state.reasoning_chain) |->
                                      <<run.state.reasoning_chain[i]>>] ])

\* process_cooking_query without its outer handler: a failure of the core
\* leaves the function as an exception
process_cooking_query_NoBoundary(run, is_dict) ==
    LET got == app_generate_cooking_response(run, is_dict)
    IN  IF got.exc # "none" THEN got
        ELSE CookingResponse(got.value.response, got.value.relevant,
                             got.value.reasoning_chain)

\* process_cooking_query once the engine has ended
process_cooking_query(run, is_dict) ==
    LET got == app_generate_cooking_response(run, is_dict)
        failure(msg) ==
            CookingResponse(<<"Error processing query:", " ">> \o msg, FALSE,
                            << <<"Error occurred">>, msg >>)
    IN  IF got.exc # "none" THEN failure(got.msg)
        ELSE LET first == CookingResponse(got.value.response, got.value.relevant,
                                          got.value.reasoning_chain)
             IN  IF first.exc = "none" THEN first
                 ELSE LET fallback ==
                              CookingResponse(got.value.response, got.value.relevant,
                                              << <<"Error in response validation">>, first.msg >>)
                      IN  IF fallback.exc = "none" THEN fallback
                          ELSE failure(fallback.msg)

\* ------------------------------------------------------------ two requests
\* the request being served, as a record
CurrentRun ==
    [ pc |-> pc, state |-> state, error |-> error, invoked |-> invoked,
      calls |-> calls, worked |-> worked, writes |-> writes, http |-> http ]

\* a new request whose reasoning_chain is the list of the request before it
RequestState_KeepChain(q) ==
    [AgentState(q) EXCEPT !.reasoning_chain = state.reasoning_chain]

\* a new request that works on the AgentState of the request before it
RequestState_Shared(q) == [state EXCEPT !.query = q]

\* state = AgentState(query=query) of a new request
RequestState(q) == AgentState(q)

\* the request has started and has not ended
MidRun == pc \in Nodes /\ invoked # <<>>

\* a second request arrives, at any moment of the first, and is served next
NewRequest ==
    \E q \in Queries :
        /\ other = NoRun
        /\ other' = CurrentRun @@ [interleaved |-> MidRun]
        /\ state' = RequestState(q)
        /\ pc' = EntryPoint
        /\ error' = None
        /\ invoked' = <<>>
        /\ calls' = <<>>
        /\ worked' = 0
        /\ writes' = 0
        /\ http' = None
        /\ UNCHANGED probe

\* the other request is served next
Switch ==
    /\ other # NoRun
    /\ other' = CurrentRun @@ [interleaved |-> other.interleaved \/ MidRun]
    /\ pc' = other.pc
    /\ state' = other.state
    /\ error' = other.error
    /\ invoked' = other.invoked
    /\ calls' = other.calls
    /\ worked' = other.worked
    /\ writes' = other.writes
    /\ http' = other.http
    /\ UNCHANGED probe

\* the handler builds its answer once the engine has ended
http_respond ==
    \E is_dict \in BOOLEAN :
        /\ pc \in {"done", "failed"}
        /\ http = None
        /\ http' = Some([ is_dict |-> is_dict,
                          out     |-> process_cooking_query(CurrentRun, is_dict) ])
        /\ UNCHANGED <<pc, state, error, invoked, calls, worked, writes, other, probe>>

\* the replies of the services to a request of the HTTP layer
AppBoolLLM == { Ok(STR_true), Ok(<<"f","a","l","s","e">>), Raised("OtherError") }

AppSearchService == { Ok(<<>>), Ok(<<1>>), Raised("OtherError") }

AppParserLLM == { Ok(<<JObj(RecipeDict(STR_easy, JNum(1), <<"3","0">>))>>),
                  Ok(<<NotJson>>),
                  Ok(<<JNull>>),
                  Raised("ValueError") }

AppResponseLLM == { Ok(<<"o","k">>), Ok(<<>>), Raised("OtherError") }

app_classify ==
    \E reply \in AppBoolLLM : RunNode("classify", classify_query(state, reply))

app_check_research ==
    \E reply \in AppBoolLLM : RunNode("check_research", check_research_needed(state, reply))

app_research ==
    \E reply \in AppSearchService : RunNode("research", do_research(state, reply))

app_parse ==
    \E reply \in AppParserLLM : RunNode("parse", parse_results(state, reply))

app_respond ==
    \E reply \in AppResponseLLM : RunNode("respond", generate_response(state, reply))

AppNext ==
    \/ app_classify \/ app_check_research \/ app_research \/ app_parse \/ app_respond
    \/ http_respond \/ NewRequest \/ Switch

AppSpec == Init /\ [][AppNext]_vars

\* ------------------------------------------- functions applied on their own
\* longest list of tool names given to can_cook_recipe
MaxTools == 2

STR_Knife      == <<"K","n","i","f","e">>
STR_knife      == <<"k","n","i","f","e">>
STR_Frying_Pan == <<"F","r","y","i","n","g"," ","P","a","n">>
STR_oven       == <<"o","v","e","n">>

ToolNames == {STR_Knife, STR_knife, STR_Frying_Pan, STR_oven}

ToolLists == SeqsUpTo(ToolNames, MaxTools)

\* a Recipe that requires the tools req
RecipeRequiring(req) ==
    Recipe([RecipeDict(STR_easy, JNum(1), <<"3","0">>) EXCEPT
              !["required_tools"] = JList([i \in 1..Len(req) |-> JStr(req[i])])]).value

DifficultyInputs == { STR_easy,
                      <<"E","A","S","Y">>,
                      <<"M","e","d","i","u","m">>,
                      <<"h","a","r","d">>,
                      <<"e","x","t","r","e","m","e">>,
                      <<" ","e","a","s","y">>,
                      <<>> }

CookingTimeInputs == { <<"3","0">>,
                       <<"3","0"," ","m","i","n","u","t","e","s">>,
                       <<"3","0"," ","m","i","n","u","t","e","s"," ">>,
                       <<"3","0","m","i","n","u","t","e","s">>,
                       <<" ","3","0">>,
                       <<"1"," ","h","o","u","r">>,
                       <<>> }

\* the keyword arguments given to Recipe
RecipeInputs ==
    { RecipeDict(diff, JNum(serv), time) :
        diff \in DifficultyInputs,
        serv \in (0 - 1)..MaxServings,
        time \in CookingTimeInputs }
    \cup EmptyFieldDicts

\* toolset.can_cook_recipe(recipe) on some ToolSet and some optional Recipe
apply_can_cook_recipe ==
    \E avail \in ToolLists, req \in ToolLists, present \in BOOLEAN :
        LET self == [available_tools |-> avail]
            rcp  == IF present THEN Some(RecipeRequiring(req)) ELSE None
        IN  /\ probe = NoProbe
            /\ probe' = [fn |-> "can_cook_recipe", arg |-> <<self, rcp>>,
                         out |-> can_cook_recipe(self, rcp)]
            /\ UNCHANGED <<pc, state, error, invoked, calls, worked, writes, http, other>>

\* Recipe(**d) on some keyword arguments
apply_Recipe ==
    \E d \in RecipeInputs :
        /\ probe = NoProbe
        /\ probe' = [fn |-> "Recipe", arg |-> <<d>>, out |-> Recipe(d)]
        /\ UNCHANGED <<pc, state, error, invoked, calls, worked, writes, http, other>>

\* the texts and the chains given to CookingResponse
ResponseTextInputs == { <<>>, <<" ">>, <<"o","k">>, <<" ","o","k","\n">> }

ChainInputs == { <<>>,
                 << <<>> >>,
                 << <<"a">> >>,
                 << <<" ">>, <<"a"," ">> >> }

\* CookingResponse(response=..., relevant=..., reasoning_chain=...)
apply_CookingResponse ==
    \E response \in ResponseTextInputs, relevant \in BOOLEAN, chain \in ChainInputs :
        /\ probe = NoProbe
        /\ probe' = [fn |-> "CookingResponse", arg |-> <<response, relevant, chain>>,
                     out |-> CookingResponse(response, relevant, chain)]
        /\ UNCHANGED <<pc, state, error, invoked, calls, worked, writes, http, other>>

FnNext == apply_can_cook_recipe \/ apply_Recipe \/ apply_CookingResponse

FnSpec == Init /\ [][FnNext]_vars

\* ================================================================= claims
PipelineOrder == <<"classify", "check_research", "research", "parse", "respond">>

\* the calls made so far to one tool
CallsTo(tool) == SelectSeq(calls, LAMBDA c : c.tool = tool)

\* the tool was called and returned v
Returned(tool, v) ==
    \E i \in 1..Len(calls) :
        calls[i].tool = tool /\ calls[i].result.exc = "none" /\ calls[i].result.value = v

ClassifiedFalse == Returned("classify_query", FALSE)
ClassifiedTrue  == Returned("classify_query", TRUE)

\* C1: the nodes are invoked in the order classify, check_research,
\* research, parse, respond, each at most once and with no node left out:
\* the nodes invoked so far are always a prefix of that order, the node to
\* run next is the next one of the order, a run that is done has invoked
\* all five, and the engine stops early only with an exception.
C1_FixedOrder ==
    /\ IsPrefix(invoked, PipelineOrder)
    /\ (pc \in Nodes => Len(invoked) < Len(PipelineOrder) /\ pc = PipelineOrder[Len(invoked) + 1])
    /\ (pc = "done" => invoked = PipelineOrder)
    /\ (pc = "failed" => error # None)
    /\ pc \in Nodes \cup {"done", "failed"}

\* a finished run in which three steps skipped: all five were still invoked
C1_Witness ==
    /\ pc = "done"
    /\ invoked = PipelineOrder
    /\ Len(calls) = 1

\* C2: a run that is done has final_response set: to the refusal text, with
\* no call to the response tool, when is_cooking_related is false, and to
\* the text the response tool returned when it is true.
C2_TerminalResponse ==
    pc = "done" =>
        /\ state.final_response # None
        /\ (~state.is_cooking_related =>
                /\ state.final_response = Some(REFUSAL)
                /\ CallsTo("generate_response") = <<>>)
        /\ (state.is_cooking_related =>
                /\ Len(CallsTo("generate_response")) = 1
                /\ CallsTo("generate_response")[1].result.exc = "none"
                /\ state.final_response = Some(CallsTo("generate_response")[1].result.value))

\* a finished cooking run whose answer is the stripped reply of the model
C2_Witness ==
    /\ pc = "done"
    /\ state.is_cooking_related
    /\ state.final_response = Some(<<"o","k">>)
    /\ calls[Len(calls)].reply.value = <<" ","o","k","\n">>

\* C3: once the classification tool has returned false, the state stays the
\* fresh AgentState of the query plus the one classification entry through
\* check_research, research and parse (needs_research false,
\* research_results empty, recipe absent, final_response absent), no other
\* tool is called, and at the end final_response is the refusal text and the
\* chain still has exactly that one entry.
C3_NonCookingNoOps ==
    ClassifiedFalse =>
        /\ pc \in {"check_research", "research", "parse", "respond", "done"}
        /\ Len(calls) = 1
        /\ state = [AgentState(calls[1].args[1]) EXCEPT
                        !.reasoning_chain = <<ClassificationEntry(FALSE)>>,
                        !.final_response  = IF pc = "done" THEN Some(REFUSAL) ELSE None]

\* a finished run that was classified as not about cooking
C3_Witness ==
    /\ ClassifiedFalse
    /\ pc = "done"
    /\ state.final_response = Some(REFUSAL)
    /\ Len(state.reasoning_chain) = 1

\* C4: once classification has returned true and the research check false,
\* research_results stays empty and recipe stays absent (the search and
\* parse tools are never called), the run still gets to respond, where the
\* response tool is called on (query, absent recipe, toolset), and a run
\* that is done has a non-empty final_response.
C4_NoResearchStillResponds ==
    (ClassifiedTrue /\ Returned("needs_research", FALSE)) =>
        /\ state.research_results = <<>>
        /\ state.recipe = None
        /\ CallsTo("search_recipes") = <<>>
        /\ CallsTo("parse_recipe") = <<>>
        /\ (pc \in {"done", "failed"} =>
                /\ invoked = PipelineOrder
                /\ Len(CallsTo("generate_response")) = 1
                /\ CallsTo("generate_response")[1].args = <<state.query, None, toolset>>)
        /\ (pc = "done" =>
                /\ state.final_response # None
                /\ state.final_response[1] # <<>>)

\* a finished run of a cooking query that needed no research
C4_Witness ==
    /\ ClassifiedTrue
    /\ Returned("needs_research", FALSE)
    /\ pc = "done"
    /\ calls[Len(calls)].tool = "generate_response"
    /\ calls[Len(calls)].args[2] = None
    /\ state.final_response = Some(<<"o","k">>)

\* the search tool was called and returned an empty sequence
SearchedEmpty == Returned("search_recipes", <<>>)

\* the search tool was called and returned at least one snippet
SearchedSome ==
    \E r \in SearchReturns : r # <<>> /\ Returned("search_recipes", r)

\* C5: when needs_research is true and the search returns an empty
\* sequence, do_research leaves research_results empty and appends nothing
\* (the chain keeps its two entries), the parse node is still invoked and
\* skips: no call to the parse tool, no entry, recipe absent.  When the
\* search returns snippets, do_research appends exactly
\* "Performed recipe research" as the third entry.
C5_EmptySearchAsymmetry ==
    /\ SearchedEmpty =>
        /\ state.needs_research
        /\ state.research_results = <<>>
        /\ state.recipe = None
        /\ CallsTo("parse_recipe") = <<>>
        /\ SubSeq(state.reasoning_chain, 1, 2)
              = <<ClassificationEntry(TRUE), ResearchNeededEntry(TRUE)>>
        /\ Len(state.reasoning_chain) = (IF pc = "done" THEN 3 ELSE 2)
        /\ (pc = "done" => state.reasoning_chain[3] = ResponseEntry)
        /\ pc # "research"
        /\ (pc # "parse" => invoked[4] = "parse")
    /\ SearchedSome =>
        /\ state.research_results # <<>>
        /\ SubSeq(state.reasoning_chain, 1, 3)
              = <<ClassificationEntry(TRUE), ResearchNeededEntry(TRUE), ResearchEntry>>
        /\ (pc = "parse" => Len(state.reasoning_chain) = 3)

\* the parse node has been invoked after an empty search and skipped
C5_Witness ==
    /\ SearchedEmpty
    /\ pc = "respond"
    /\ invoked = SubSeq(PipelineOrder, 1, 4)
    /\ Len(state.reasoning_chain) = 2

\* C6 as stated: the length of reasoning_chain equals the number of steps
\* executed so far whose guard passed and that called their tool and wrote
\* their field.
C6_Original ==
    Len(state.reasoning_chain) = worked

\* C6, amended: the length of reasoning_chain equals the number of steps
\* executed so far that passed their guard, called their tool and returned,
\* not counting a do_research whose search returned an empty sequence (it
\* writes research_results but appends nothing).
C6_ChainLength ==
    Len(state.reasoning_chain) = worked - (IF SearchedEmpty THEN 1 ELSE 0)

\* a finished run whose search was empty: three steps appended, four worked
C6_Witness ==
    /\ pc = "done"
    /\ SearchedEmpty
    /\ worked = 4
    /\ Len(state.reasoning_chain) = 3

\* C7: reasoning_chain is append-only: in every step the chain before is a
\* prefix of the chain after, and the step adds at most one entry.
C7_AppendOnly ==
    [][ /\ IsPrefix(state.reasoning_chain, state'.reasoning_chain)
        /\ Len(state'.reasoning_chain) <= Len(state.reasoning_chain) + 1 ]_vars

\* a finished run in which every step appended its entry
C7_Witness ==
    /\ pc = "done"
    /\ Len(state.reasoning_chain) = 5
    /\ state.reasoning_chain[4] = ParseEntry(None)

\* C8: final_response is absent until the respond step has returned (no
\* assignment has changed it while a node is still to run, or when the run
\* has failed), and in a run that is done it has been assigned exactly once
\* and is set.
C8_WrittenOnceByRespond ==
    /\ (pc \in Nodes \cup {"failed"} => state.final_response = None /\ writes = 0)
    /\ (pc = "done" => state.final_response # None /\ writes = 1)

\* a finished run with a parsed recipe: respond has written final_response,
\* and it is the only write
C8_Witness ==
    /\ pc = "done"
    /\ state.recipe # None
    /\ state.final_response # None
    /\ writes = 1

\* C9 as stated: when the external call of a step (the language model or
\* the search service) raises, the run fails with that exception at once:
\* no tool is called after it and no later node is invoked.
C9_Original ==
    \A i \in 1..Len(calls) :
        calls[i].reply.exc # "none" =>
            /\ pc = "failed"
            /\ error = Some(calls[i].reply.exc)
            /\ i = Len(calls)

\* C9, the part the code keeps: a raise of the external call propagates in
\* classify, check_research, research and respond, and in parse when the
\* exception is not a ValueError.
C9_PropagatesExceptValueErrorInParse ==
    \A i \in 1..Len(calls) :
        (/\ calls[i].reply.exc # "none"
         /\ ~(calls[i].tool = "parse_recipe" /\ calls[i].reply.exc \in ValueErrorClasses)) =>
            /\ pc = "failed"
            /\ error = Some(calls[i].reply.exc)
            /\ i = Len(calls)

\* the parser model's reply was received but is not a valid Recipe
Undecodable(call) ==
    /\ call.tool = "parse_recipe"
    /\ call.reply.exc = "none"
    /\ ParseRecipeTry(call.reply).exc # "none"

\* C10 as stated: when the parser model's reply cannot be decoded into a
\* valid Recipe, the parse tool returns None without raising, parse_results
\* leaves recipe absent and appends "Recipe parsing failed" once, and the
\* run goes on to the respond step.
C10_Original ==
    \A i \in 1..Len(calls) :
        Undecodable(calls[i]) =>
            /\ calls[i].result = Ok(None)
            /\ state.recipe = None
            /\ Len(state.reasoning_chain) >= 4
            /\ state.reasoning_chain[4] = "Recipe parsing failed"
            /\ (pc \in {"respond", "done"} \/ (pc = "failed" /\ invoked = PipelineOrder))

\* C10, the part the code keeps: the same, for every undecodable reply
\* that is not a JSON document other than an object.
C10_AbsentUnlessNotAnObject ==
    \A i \in 1..Len(calls) :
        (Undecodable(calls[i]) /\ ParseRecipeTry(calls[i].reply).exc # "TypeError") =>
            /\ calls[i].result = Ok(None)
            /\ state.recipe = None
            /\ Len(state.reasoning_chain) >= 4
            /\ state.reasoning_chain[4] = "Recipe parsing failed"
            /\ (pc \in {"respond", "done"} \/ (pc = "failed" /\ invoked = PipelineOrder))

\* C11 as stated: the search tool never fails: whatever the search service
\* does, search_recipes returns a sequence of at most three snippets, and
\* the research step does not raise.
C11_Original ==
    \A i \in 1..Len(calls) :
        calls[i].tool = "search_recipes" =>
            /\ calls[i].result.exc = "none"
            /\ Len(calls[i].result.value) <= MaxResults
            /\ (pc = "failed" => Len(invoked) > 3)

\* C11, amended: when the search service answers, search_recipes returns
\* its bodies, at most three, and the research step returns; when the
\* service raises, the error is not suppressed: search_recipes raises it,
\* research_results stays empty, and the run fails in the research step
\* with that exception.
C11_SearchErrorsPropagate ==
    \A i \in 1..Len(calls) :
        calls[i].tool = "search_recipes" =>
            /\ (calls[i].reply.exc = "none" =>
                    /\ calls[i].result = Ok(calls[i].reply.value)
                    /\ Len(calls[i].result.value) <= MaxResults
                    /\ state.research_results = calls[i].result.value
                    /\ (pc = "failed" => Len(invoked) > 3))
            /\ (calls[i].reply.exc # "none" =>
                    /\ calls[i].result = Raised(calls[i].reply.exc)
                    /\ pc = "failed"
                    /\ error = Some(calls[i].reply.exc)
                    /\ invoked = SubSeq(PipelineOrder, 1, 3)
                    /\ state.research_results = <<>>)

\* the search service raised and the run failed in the research step
C11_Witness ==
    /\ pc = "failed"
    /\ Len(calls) = 3
    /\ calls[3].tool = "search_recipes"
    /\ calls[3].reply.exc = "OtherError"
    /\ error = Some("OtherError")

\* the response tool was called and gave no text: it raised, or returned
\* the empty string
NoResponseText(call) ==
    /\ call.tool = "generate_response"
    /\ (call.result.exc # "none" \/ call.result.value = <<>>)

\* C12: in the cooking branch of generate_response, when the response tool
\* yields no text the run fails with an exception, final_response stays
\* absent, the chain gets no "Generated final response" entry and the tool
\* is not called again; when the tool yields text, the step sets
\* final_response to it and appends "Generated final response".
C12_EmptyResponseFails ==
    \A i \in 1..Len(calls) :
        calls[i].tool = "generate_response" =>
            /\ i = Len(calls)
            /\ Len(CallsTo("generate_response")) = 1
            /\ state.is_cooking_related
            /\ (NoResponseText(calls[i]) =>
                    /\ pc = "failed"
                    /\ error # None
                    /\ (calls[i].reply.exc = "none" => error = Some("ValueError"))
                    /\ state.final_response = None
                    /\ ResponseEntry \notin Range(state.reasoning_chain))
            /\ (~NoResponseText(calls[i]) =>
                    /\ pc = "done"
                    /\ state.final_response = Some(calls[i].result.value)
                    /\ state.reasoning_chain[Len(state.reasoning_chain)] = ResponseEntry)

\* the response model replied with whitespace only and the run failed
C12_Witness ==
    /\ pc = "failed"
    /\ calls[Len(calls)].tool = "generate_response"
    /\ calls[Len(calls)].reply = Ok(<<" ","\n">>)
    /\ calls[Len(calls)].result = Ok(<<>>)
    /\ state.final_response = None

\* the step an entry of the chain was written by
EntryStep(e) ==
    CASE e \in {ClassificationEntry(TRUE), ClassificationEntry(FALSE)}  -> 1
      [] e \in {ResearchNeededEntry(TRUE), ResearchNeededEntry(FALSE)}  -> 2
      [] e = ResearchEntry                                              -> 3
      [] e \in {"Recipe parsed successfully", "Recipe parsing failed"}  -> 4
      [] e = ResponseEntry                                              -> 5
      [] OTHER                                                          -> 0

\* C13: in a run with a non-empty search result, once the parse step has
\* returned the chain is exactly the classification entry, the
\* research-needed entry, "Performed recipe research" and the parsing
\* entry, and respond adds "Generated final response" as a fifth exactly
\* when it succeeds.  In every state the entries of the chain are in the
\* order of the steps, at most one per step.
C13_ChainOrder ==
    /\ \A i, j \in 1..Len(state.reasoning_chain) :
            i < j => 0 < EntryStep(state.reasoning_chain[i])
                     /\ EntryStep(state.reasoning_chain[i]) < EntryStep(state.reasoning_chain[j])
    /\ (SearchedSome /\ (pc \in {"respond", "done"} \/ Len(invoked) = 5)) =>
            /\ SubSeq(state.reasoning_chain, 1, 4)
                  = << ClassificationEntry(TRUE), ResearchNeededEntry(TRUE),
                       ResearchEntry, ParseEntry(state.recipe) >>
            /\ Len(state.reasoning_chain) = (IF pc = "done" THEN 5 ELSE 4)
            /\ (pc = "done" => state.reasoning_chain[5] = ResponseEntry)

\* a finished run on the full path with a parsed recipe
C13_Witness ==
    /\ pc = "done"
    /\ state.reasoning_chain = << "Query classification: cooking-related",
                                  "Research needed",
                                  "Performed recipe research",
                                  "Recipe parsed successfully",
                                  "Generated final response" >>

\* C17: a step that skips calls no tool and every tool is called at most
\* once in a run: the research-need tool only when is_cooking_related is
\* true, the search tool only when needs_research is true, the parse tool
\* only when research_results is non-empty, the response tool only when
\* is_cooking_related is true; a run classified as not about cooking makes
\* one tool call in all.
C17_GuardedCalls ==
    /\ Len(calls) <= Len(invoked)
    /\ \A i, j \in 1..Len(calls) : calls[i].tool = calls[j].tool => i = j
    /\ \A i \in 1..Len(calls) :
        /\ calls[i].tool = "needs_research"    => state.is_cooking_related
        /\ calls[i].tool = "search_recipes"    => state.needs_research
        /\ calls[i].tool = "parse_recipe"      => state.research_results # <<>>
        /\ calls[i].tool = "generate_response" => state.is_cooking_related
    /\ (ClassifiedFalse => Len(calls) = 1)

\* a finished cooking run without research: three steps called their tool,
\* research and parse skipped and called nothing
C17_Witness ==
    /\ pc = "done"
    /\ state.is_cooking_related
    /\ ~state.needs_research
    /\ Len(invoked) = 5
    /\ Len(calls) = 3

\* C18: can_cook_recipe returns TRUE for an absent recipe, and otherwise
\* TRUE exactly when every required tool equals, in lower case, some
\* available tool, whatever the order and the repetitions.  With
\* ["Knife", "Frying Pan"] available: ["knife"] gives TRUE, ["oven"] FALSE
\* and [] TRUE.
C18_CanCook ==
    probe.fn = "can_cook_recipe" =>
        LET avail == probe.arg[1].available_tools
            rcp   == probe.arg[2]
        IN  /\ (rcp = None => probe.out = TRUE)
            /\ (rcp # None =>
                 LET req == rcp[1].required_tools
                 IN  /\ probe.out =
                          (\A i \in 1..Len(req) : \E j \in 1..Len(avail) :
                                Lower(req[i]) = Lower(avail[j]))
                     /\ (avail = <<STR_Knife, STR_Frying_Pan>> =>
                            /\ (req = <<STR_knife>> => probe.out = TRUE)
                            /\ (req = <<STR_oven>>  => probe.out = FALSE)
                            /\ (req = <<>>          => probe.out = TRUE)))

\* the example of the claim: "knife" is found among "Knife", "Frying Pan"
C18_Witness ==
    /\ probe.fn = "can_cook_recipe"
    /\ probe.arg[1].available_tools = <<STR_Knife, STR_Frying_Pan>>
    /\ probe.arg[2] # None
    /\ probe.arg[2][1].required_tools = <<STR_knife>>
    /\ probe.out = TRUE

\* Recipe was applied to arguments whose difficulty and servings are valid
ProbedTime ==
    /\ probe.fn = "Recipe"
    /\ probe.arg[1]["difficulty"].s = STR_easy
    /\ probe.arg[1]["servings"].n >= 1

\* C19 as stated: Recipe construction rejects no cooking_time, and the
\* stored cooking_time ends with "minutes".
C19_Original ==
    ProbedTime =>
        /\ probe.out.exc = "none"
        /\ EndsWith(probe.out.value.cooking_time, STR_minutes)

\* C19, the part the code keeps: no cooking_time is rejected, the stored
\* value ends with "minutes" once stripped, a value that ends with
\* "minutes" once stripped is stored as given, any other is stored stripped
\* with " minutes" appended, and validating the stored value again changes
\* nothing.
C19_EndsWithMinutesOnceStripped ==
    ProbedTime =>
        LET raw    == probe.arg[1]["cooking_time"].s
            stored == probe.out.value.cooking_time
        IN  /\ probe.out.exc = "none"
            /\ EndsWith(Strip(stored), STR_minutes)
            /\ (EndsWith(Strip(raw), STR_minutes) => stored = raw)
            /\ (~EndsWith(Strip(raw), STR_minutes) =>
                    stored = Strip(raw) \o <<" ">> \o STR_minutes)
            /\ validate_cooking_time(stored) = Ok(stored)

\* Recipe was applied to arguments whose servings are valid
ProbedDifficulty ==
    /\ probe.fn = "Recipe"
    /\ probe.arg[1]["servings"].n >= 1

\* C20: Recipe construction accepts a difficulty exactly when its
\* lower-cased form is easy, medium or hard, and stores that lower-cased
\* form; any other difficulty is a validation failure.
C20_Difficulty ==
    ProbedDifficulty =>
        LET raw   == probe.arg[1]["difficulty"].s
            names == { <<"e","a","s","y">>, <<"m","e","d","i","u","m">>, <<"h","a","r","d">> }
        IN  /\ (probe.out.exc = "none") = (Lower(raw) \in names)
            /\ (probe.out.exc = "none" =>
                    /\ probe.out.value.difficulty = Lower(raw)
                    /\ probe.out.value.difficulty \in names)
            /\ (probe.out.exc # "none" => probe.out = Raised("ValidationError"))

\* the example of the claim: "EASY" is accepted and stored as "easy"
C20_Witness ==
    /\ probe.fn = "Recipe"
    /\ probe.arg[1]["difficulty"].s = <<"E","A","S","Y">>
    /\ probe.out.exc = "none"
    /\ probe.out.value.difficulty = <<"e","a","s","y">>

\* the description of a failure of the core, as process_cooking_query
\* receives it
ErrorDescription ==
    Strip(app_generate_cooking_response(CurrentRun, http[1].is_dict).msg)

CoreFailed == pc = "failed" \/ ~http[1].is_dict

\* C16: process_cooking_query never raises, and when the core failed (a step
\* raised, or the engine result is not a dict) it returns a response object
\* with a non-empty response, relevant = false and a reasoning_chain that
\* contains the error description.
C16_BoundaryCatches ==
    http # None =>
        /\ http[1].out.exc = "none"
        /\ Len(http[1].out.value.response) >= 1
        /\ CoreFailed =>
               /\ http[1].out.value.relevant = FALSE
               /\ \E i \in 1..Len(http[1].out.value.reasoning_chain) :
                      http[1].out.value.reasoning_chain[i] = ErrorDescription

\* a step raised and the handler answered
C16_Witness ==
    /\ http # None
    /\ pc = "failed"
    /\ error = Some("OtherError")
    /\ http[1].out.exc = "none"
    /\ http[1].out.value.reasoning_chain =
           << <<"Error occurred">>,
              <<"Failed to generate response:", " ", "Workflow execution failed:">> >>

\* the answers the services gave to a run, in the order they were asked
Answers(cs) == [i \in 1..Len(cs) |-> <<cs[i].tool, cs[i].reply>>]

Ended(run) == run.pc \in {"done", "failed"}

StepOf(n, st, reply) ==
    CASE n = "classify"       -> classify_query(st, reply)
      [] n = "check_research" -> check_research_needed(st, reply)
      [] n = "research"       -> do_research(st, reply)
      [] n = "parse"          -> parse_results(st, reply)
      [] n = "respond"        -> generate_response(st, reply)

ToolOf(n) ==
    CASE n = "classify"       -> "classify_query"
      [] n = "check_research" -> "needs_research"
      [] n = "research"       -> "search_recipes"
      [] n = "parse"          -> "parse_recipe"
      [] n = "respond"        -> "generate_response"

\* the answer a run got from a tool (any answer where it did not ask)
AnswerOf(cs, tool) ==
    IF \E i \in 1..Len(cs) : cs[i].tool = tool
    THEN cs[CHOOSE i \in 1..Len(cs) : cs[i].tool = tool].reply
    ELSE Raised("OtherError")

\* a run executed alone, from a fresh AgentState, with given answers
RECURSIVE AloneFrom(_, _, _)
AloneFrom(n, st, cs) ==
    IF n \notin Nodes THEN [pc |-> n, state |-> st]
    ELSE LET r == StepOf(n, st, AnswerOf(cs, ToolOf(n)))
         IN  IF r.exc # "none" THEN [pc |-> "failed", state |-> st]
             ELSE AloneFrom(After(n), r.value, cs)

Alone(q, cs) == AloneFrom(EntryPoint, AgentState(q), cs)

AsAlone(run) ==
    Ended(run) =>
        LET a == Alone(run.state.query, run.calls)
        IN  /\ run.pc = a.pc
            /\ run.state.is_cooking_related = a.state.is_cooking_related
            /\ run.state.reasoning_chain = a.state.reasoning_chain
            /\ run.state.final_response = a.state.final_response

ProbedRecipe == probe.fn = "Recipe" /\ probe.out.exc = "none"

\* C21: every Recipe that can be constructed has a non-empty name, a
\* non-empty ingredients sequence, a non-empty steps sequence and
\* servings >= 1.
C21_Original ==
    ProbedRecipe =>
        /\ probe.out.value.name # <<>>
        /\ probe.out.value.ingredients # <<>>
        /\ probe.out.value.steps # <<>>
        /\ probe.out.value.servings >= 1

\* what the validators do enforce: servings >= 1 and a difficulty among the
\* three allowed, on every Recipe constructed
C21_ServingsAndDifficultyOnly ==
    ProbedRecipe =>
        /\ probe.out.value.servings >= 1
        /\ probe.out.value.difficulty \in AllowedDifficulty

\* a recipe with an empty name, no ingredients or no steps is stored in
\* AgentState.recipe instead of being reported as absent
C21_EmptyFieldStored ==
    /\ state.recipe # None
    /\ \/ state.recipe[1].name = <<>>
       \/ state.recipe[1].ingredients = <<>>
       \/ state.recipe[1].steps = <<>>

ProbedResponse == probe.fn = "CookingResponse"

\* C22: a CookingResponse always gets built, with a non-empty response and a
\* non-empty reasoning_chain: a response text that is empty after trimming
\* is replaced by "No response generated" and the construction does not
\* fail, and an empty chain is replaced by ["Direct response generated"].
C22_Original ==
    ProbedResponse =>
        /\ probe.out.exc = "none"
        /\ probe.out.value.response # <<>>
        /\ probe.out.value.reasoning_chain # <<>>
        /\ Strip(probe.arg[1]) = <<>> =>
               probe.out.value.response = <<"No response generated">>
        /\ probe.arg[3] = <<>> =>
               probe.out.value.reasoning_chain = << <<"Direct response generated">> >>

\* what the constructor does: it fails exactly on a text that is empty after
\* trimming, and otherwise keeps the trimmed text and replaces an empty
\* chain by the default one
C22_EmptyTextIsRejected ==
    ProbedResponse =>
        /\ (probe.out.exc # "none") = (Strip(probe.arg[1]) = <<>>)
        /\ probe.out.exc = "none" =>
               /\ probe.out.value.response = Strip(probe.arg[1])
               /\ probe.arg[3] = <<>> =>
                      probe.out.value.reasoning_chain = << <<"Direct response generated">> >>

\* what the HTTP layer returns: the text and every entry of the chain are
\* non-empty, because the texts it passes on never are
C22_HttpResponseNonEmpty ==
    http # None =>
        /\ http[1].out.exc = "none"
        /\ http[1].out.value.response # <<>>
        /\ http[1].out.value.reasoning_chain # <<>>
        /\ \A i \in 1..Len(http[1].out.value.reasoning_chain) :
               http[1].out.value.reasoning_chain[i] # <<>>

\* C23: in every state of every run, needs_research implies
\* is_cooking_related, a non-empty research_results implies needs_research,
\* and a recipe implies a non-empty research_results; so a recipe exists
\* only in a run that was classified as about cooking, needed research and
\* got at least one snippet from the search.
C23_GateMonotonicity ==
    /\ state.needs_research => state.is_cooking_related
    /\ state.research_results # <<>> => state.needs_research
    /\ state.recipe # None => state.research_results # <<>>
    /\ state.recipe # None =>
           /\ ClassifiedTrue
           /\ Returned("needs_research", TRUE)
           /\ SearchedSome

\* a run that holds a recipe, all three gates open
C23_Witness ==
    /\ state.recipe # None
    /\ state.research_results # <<>>
    /\ state.needs_research
    /\ state.is_cooking_related
    /\ pc \in {"respond", "done", "failed"}

NoRevisit ==
    \A i, j \in 1..Len(invoked) : invoked[i] = invoked[j] => i = j

\* C24: every run ends: it eventually is done, after exactly five step
\* invocations, or failed, after at least one and at most five, and no step
\* is ever invoked twice.
C24_Terminates ==
    /\ <>(pc \in {"done", "failed"})
    /\ [](pc = "done" => Len(invoked) = 5)
    /\ [](pc = "failed" => Len(invoked) \in 1..5)
    /\ []NoRevisit

\* a run that failed in its fifth step
C24_Witness ==
    /\ pc = "failed"
    /\ Len(invoked) = 5
    /\ NoRevisit
    /\ Len(calls) = 5

====
